---- MODULE Spec2Model ----
(***************************************************************************)
(* Model of lib/models_base.py (sastre): the base API models.              *)
(*                                                                         *)
(* A Python str is a sequence of code points (integers).  A JSON payload   *)
(* is a tagged value: a string, or an object whose entries keep Python's   *)
(* dict insertion order.  json.dumps / json.loads, re.sub and str.format   *)
(* are computed character by character, as CPython computes them, over the *)
(* value domain {string, object} and code points below 2^16.               *)
(***************************************************************************)
EXTENDS Integers, Sequences, FiniteSets, TLC

VARIABLES cls, data, call, files, index, saved, server, link

vars == <<cls, data, call, files, index, saved, server, link>>

(***************************************************************************)
(* Bounds of the model.                                                    *)
(***************************************************************************)
\* Largest number of top-level entries of a generated payload.
MaxEntries == 2
\* Largest number of keys of a generated id mapping.
MaxMap == 2
\* Largest number of members of a generated index (collection).
MaxIndex == 3
\* Largest number of files the modelled filesystem holds.
MaxFiles == 2

(***************************************************************************)
(* Characters and text.                                                    *)
(***************************************************************************)
\* The printable ASCII characters in code-point order, from 32 (space); the
\* grave accent (96) is spelled by name.
Printable ==
  <<" ", "!", "\"", "#", "$", "%", "&", "'", "(", ")", "*", "+", ",", "-", ".", "/",
    "0", "1", "2", "3", "4", "5", "6", "7", "8", "9", ":", ";", "<", "=", ">", "?",
    "@", "A", "B", "C", "D", "E", "F", "G", "H", "I", "J", "K", "L", "M", "N", "O",
    "P", "Q", "R", "S", "T", "U", "V", "W", "X", "Y", "Z", "[", "\\", "]", "^", "_",
    "GRAVE", "a", "b", "c", "d", "e", "f", "g", "h", "i", "j", "k", "l", "m", "n", "o",
    "p", "q", "r", "s", "t", "u", "v", "w", "x", "y", "z", "{", "|", "}", "~">>

\* ord(c) of each printable ASCII character.
OrdTable ==
  [c \in {Printable[i] : i \in DOMAIN Printable} |->
     31 + (CHOOSE i \in DOMAIN Printable : Printable[i] = c)]
Ord(c) == OrdTable[c]

\* The Python str spelled by a tuple of one-character strings.
T(s) == [i \in DOMAIN s |-> Ord(s[i])]

\* c * n for a one-character string c.
Rep(c, n) == [i \in 1..n |-> Ord(c)]

IsDigit(c) == c >= 48 /\ c <= 57
IsUpper(c) == c >= 65 /\ c <= 90
IsLowerAscii(c) == c >= 97 /\ c <= 122
\* [0-9a-f]
IsLowerHex(c) == IsDigit(c) \/ (c >= 97 /\ c <= 102)
\* int(c, 16) for a hex digit of either case; -1 otherwise.
HexVal(c) ==
  IF IsDigit(c) THEN c - 48
  ELSE IF c >= 97 /\ c <= 102 THEN c - 87
  ELSE IF c >= 65 /\ c <= 70 THEN c - 55
  ELSE -1
\* '{:x}'.format(n) for 0 <= n < 16.
HexDigit(n) == IF n < 10 THEN 48 + n ELSE 87 + n

\* The code points of the characters the serialized forms are made of.
Ch_QUOTE == 34
Ch_BACKSLASH == 92
Ch_HYPHEN == 45
Ch_UNDERSCORE == 95
Ch_LBRACE == 123
Ch_RBRACE == 125
Ch_COLON == 58
Ch_COMMA == 44
Ch_SPACE == 32
Ch_LETTER_U == 117
Ch_SLASH == 47
Ch_LETTER_B == 98
Ch_LETTER_F == 102
Ch_LETTER_N == 110
Ch_LETTER_R == 114
Ch_LETTER_T == 116

\* The fixed texts of the serialized forms.
Lit_esc_quote == T(<<"\\", "\"">>)
Lit_esc_backslash == T(<<"\\", "\\">>)
Lit_esc_n == T(<<"\\", "n">>)
Lit_esc_r == T(<<"\\", "r">>)
Lit_esc_t == T(<<"\\", "t">>)
Lit_esc_b == T(<<"\\", "b">>)
Lit_esc_f == T(<<"\\", "f">>)
Lit_esc_u == T(<<"\\", "u">>)
Lit_item_sep == T(<<",", " ">>)
Lit_key_sep == T(<<":", " ">>)
Lit_null == T(<<"n", "u", "l", "l">>)
Lit_empty_dict == T(<<"{", "}">>)
Lit_item_id == T(<<"i", "t", "e", "m", "_", "i", "d">>)
Lit_item_name == T(<<"i", "t", "e", "m", "_", "n", "a", "m", "e">>)

(***************************************************************************)
(* JSON values.                                                            *)
(***************************************************************************)
Str(s) == [t |-> "str", s |-> s, o |-> <<>>]
Obj(es) == [t |-> "obj", s |-> <<>>, o |-> es]
\* Python's None.
None == [t |-> "none", s |-> <<>>, o |-> <<>>]
\* One entry of a dict.
E(k, v) == [k |-> k, v |-> v]

Keys(es) == {es[i].k : i \in DOMAIN es}
HasKey(es, k) == \E i \in DOMAIN es : es[i].k = k
\* d[k], for a key the dict holds.
ValueOf(es, k) == es[CHOOSE i \in DOMAIN es : es[i].k = k].v

\* d[k] = v: an existing key keeps its place, a new key goes last.
DictSet(es, k, v) ==
  IF HasKey(es, k)
  THEN [i \in DOMAIN es |-> IF es[i].k = k THEN E(k, v) ELSE es[i]]
  ELSE Append(es, E(k, v))

\* {k: v for k, v in d.items() if k not in drop}
DictWithout(es, drop) == SelectSeq(es, LAMBDA e : e.k \notin drop)

\* a == b for Python values: dicts compare as mappings, whatever the order.
RECURSIVE PyEq(_, _)
PyEq(a, b) ==
  IF a.t # b.t THEN FALSE
  ELSE IF a.t = "obj"
  THEN /\ Len(a.o) = Len(b.o)
       /\ \A i \in DOMAIN a.o :
            /\ HasKey(b.o, a.o[i].k)
            /\ PyEq(a.o[i].v, ValueOf(b.o, a.o[i].k))
  ELSE a.s = b.s

(***************************************************************************)
(* json.dumps: ensure_ascii escaping, ", " and ": " separators, or         *)
(* indent=2.                                                               *)
(***************************************************************************)
\* json.encoder.py_encode_basestring_ascii, one character.
EscapeChar(c) ==
  IF c = Ch_QUOTE THEN Lit_esc_quote
  ELSE IF c = Ch_BACKSLASH THEN Lit_esc_backslash
  ELSE IF c = 10 THEN Lit_esc_n
  ELSE IF c = 13 THEN Lit_esc_r
  ELSE IF c = 9 THEN Lit_esc_t
  ELSE IF c = 8 THEN Lit_esc_b
  ELSE IF c = 12 THEN Lit_esc_f
  ELSE IF c >= 32 /\ c <= 126 THEN <<c>>
  ELSE Lit_esc_u \o <<HexDigit(c \div 4096), HexDigit((c \div 256) % 16),
                             HexDigit((c \div 16) % 16), HexDigit(c % 16)>>

\* The escapes of s[lo..hi], concatenated (by halves, to keep the
\* evaluation shallow).
RECURSIVE EscapeRange(_, _, _)
EscapeRange(s, lo, hi) ==
  IF lo > hi THEN <<>>
  ELSE IF lo = hi THEN EscapeChar(s[lo])
  ELSE LET mid == (lo + hi) \div 2
       IN EscapeRange(s, lo, mid) \o EscapeRange(s, mid + 1, hi)

\* The JSON string literal of a Python str.
DumpStr(s) == <<Ch_QUOTE>> \o EscapeRange(s, 1, Len(s)) \o <<Ch_QUOTE>>

\* The line break and indentation json.dumps(indent=2) puts before an item
\* at nesting level lvl; nothing without indent.
NewLine(pretty, lvl) ==
  IF pretty THEN <<10>> \o [i \in 1..(2 * lvl) |-> Ch_SPACE] ELSE <<>>
ItemSep(pretty) == IF pretty THEN <<Ch_COMMA>> ELSE Lit_item_sep

RECURSIVE Dump(_, _, _), DumpItems(_, _, _, _)
Dump(v, pretty, lvl) ==
  IF v.t = "str" THEN DumpStr(v.s)
  ELSE IF v.t = "none" THEN Lit_null
  ELSE IF Len(v.o) = 0 THEN Lit_empty_dict
  ELSE <<Ch_LBRACE>> \o NewLine(pretty, lvl + 1) \o DumpItems(v.o, 1, pretty, lvl + 1)
       \o NewLine(pretty, lvl) \o <<Ch_RBRACE>>
DumpItems(es, i, pretty, lvl) ==
  DumpStr(es[i].k) \o Lit_key_sep \o Dump(es[i].v, pretty, lvl)
  \o (IF i = Len(es) THEN <<>>
      ELSE ItemSep(pretty) \o NewLine(pretty, lvl) \o DumpItems(es, i + 1, pretty, lvl))

\* json.dumps(v)
JsonDumps(v) == Dump(v, FALSE, 0)
\* json.dump(v, f, indent=2)
JsonDumpsIndent(v) == Dump(v, TRUE, 0)

(***************************************************************************)
(* json.loads.  A parse result is [ok, v, i]: whether the text parsed, the *)
(* value, and the index after it.  ok = FALSE is JSONDecodeError.          *)
(***************************************************************************)
ParseError == [ok |-> FALSE, v |-> None, i |-> 0]

IsJsonWs(c) == c \in {Ch_SPACE, 9, 10, 13}

\* The least index in lo..hi that satisfies P, or hi + 1 when none does.
FirstIndex(lo, hi, P(_)) ==
  IF \E j \in lo..hi : P(j)
  THEN CHOOSE j \in lo..hi : P(j) /\ \A k \in lo..(j - 1) : ~P(k)
  ELSE hi + 1

\* The index of the first character at or after i that is not whitespace.
SkipWs(txt, i) == FirstIndex(i, Len(txt), LAMBDA j : ~IsJsonWs(txt[j]))

\* The character a one-letter escape stands for; -1 for an invalid escape.
Unescape(c) ==
  IF c \in {Ch_QUOTE, Ch_BACKSLASH, Ch_SLASH} THEN c
  ELSE IF c = Ch_LETTER_B THEN 8
  ELSE IF c = Ch_LETTER_F THEN 12
  ELSE IF c = Ch_LETTER_N THEN 10
  ELSE IF c = Ch_LETTER_R THEN 13
  ELSE IF c = Ch_LETTER_T THEN 9
  ELSE -1

\* json.decoder.py_scanstring from index i, the character after the
\* opening quote; acc is the text decoded so far.  A chunk of plain
\* characters is taken up to its terminator: the closing quote, a
\* backslash, or a control character (an error in strict mode).
RECURSIVE ScanString(_, _, _)
ScanString(txt, i, acc) ==
  LET e == FirstIndex(i, Len(txt),
                      LAMBDA j : txt[j] \in {Ch_QUOTE, Ch_BACKSLASH} \/ txt[j] < 32)
      chunk == acc \o SubSeq(txt, i, e - 1)
  IN IF e > Len(txt) THEN ParseError
     ELSE IF txt[e] = Ch_QUOTE THEN [ok |-> TRUE, v |-> Str(chunk), i |-> e + 1]
     ELSE IF txt[e] # Ch_BACKSLASH THEN ParseError
     ELSE IF e + 1 > Len(txt) THEN ParseError
     ELSE IF txt[e + 1] = Ch_LETTER_U
     THEN IF /\ e + 5 <= Len(txt)
             /\ \A j \in (e + 2)..(e + 5) : HexVal(txt[j]) >= 0
          THEN ScanString(txt, e + 6,
                          Append(chunk, 4096 * HexVal(txt[e + 2]) + 256 * HexVal(txt[e + 3])
                                        + 16 * HexVal(txt[e + 4]) + HexVal(txt[e + 5])))
          ELSE ParseError
     ELSE IF Unescape(txt[e + 1]) >= 0
     THEN ScanString(txt, e + 2, Append(chunk, Unescape(txt[e + 1])))
     ELSE ParseError

RECURSIVE ParseValue(_, _), ParseMembers(_, _, _)
\* JSONDecoder.raw_decode at index i (no leading whitespace).
ParseValue(txt, i) ==
  IF i > Len(txt) THEN ParseError
  ELSE IF txt[i] = Ch_QUOTE THEN ScanString(txt, i + 1, <<>>)
  ELSE IF txt[i] = Ch_LBRACE
  THEN LET j == SkipWs(txt, i + 1)
       IN IF j <= Len(txt) /\ txt[j] = Ch_RBRACE
          THEN [ok |-> TRUE, v |-> Obj(<<>>), i |-> j + 1]
          ELSE ParseMembers(txt, j, <<>>)
  ELSE ParseError
\* json.decoder.JSONObject from the opening quote of a key at index i; acc
\* is the dict built from the pairs read so far (a repeated key keeps its
\* first place and takes the last value, as dict(pairs) does).
ParseMembers(txt, i, acc) ==
  IF i > Len(txt) \/ txt[i] # Ch_QUOTE THEN ParseError
  ELSE LET key == ScanString(txt, i + 1, <<>>)
       IN IF ~key.ok THEN ParseError
          ELSE LET c == SkipWs(txt, key.i)
               IN IF c > Len(txt) \/ txt[c] # Ch_COLON THEN ParseError
                  ELSE LET val == ParseValue(txt, SkipWs(txt, c + 1))
                       IN IF ~val.ok THEN ParseError
                          ELSE LET e == SkipWs(txt, val.i)
                                   d == DictSet(acc, key.v.s, val.v)
                               IN IF e > Len(txt) THEN ParseError
                                  ELSE IF txt[e] = Ch_RBRACE
                                  THEN [ok |-> TRUE, v |-> Obj(d), i |-> e + 1]
                                  ELSE IF txt[e] = Ch_COMMA
                                  THEN ParseMembers(txt, SkipWs(txt, e + 1), d)
                                  ELSE ParseError

\* json.loads(txt): the whole text is one value, whitespace around it.
JsonLoads(txt) ==
  LET r == ParseValue(txt, SkipWs(txt, 1))
  IN IF r.ok /\ SkipWs(txt, r.i) = Len(txt) + 1 THEN r ELSE ParseError

(***************************************************************************)
(* Identifiers and the id rewrite.                                         *)
(***************************************************************************)
\* The group lengths of r'[0-9a-f]{8}-[0-9a-f]{4}-[0-9a-f]{4}-[0-9a-f]{4}-[0-9a-f]{12}'.
IdGroups == <<8, 4, 4, 4, 12>>

RECURSIVE SumTo(_, _)
SumTo(s, n) == IF n = 0 THEN 0 ELSE s[n] + SumTo(s, n - 1)

\* The length of a match, and the offsets (from 1) of its hyphens.
IdLen == SumTo(IdGroups, Len(IdGroups)) + Len(IdGroups) - 1
DashOffsets == {SumTo(IdGroups, n) + n : n \in 1..(Len(IdGroups) - 1)}

\* Whether the pattern matches txt at index i.
IdShapeAt(txt, i) ==
  /\ i + IdLen - 1 <= Len(txt)
  /\ \A j \in 1..IdLen :
       IF j \in DashOffsets THEN txt[i + j - 1] = Ch_HYPHEN ELSE IsLowerHex(txt[i + j - 1])

IdAt(txt, i) == SubSeq(txt, i, i + IdLen - 1)

\* replace_id: id_mapping_dict.get(matched_id, matched_id)
replace_id(id_mapping_dict, matched_id) ==
  IF matched_id \in DOMAIN id_mapping_dict THEN id_mapping_dict[matched_id] ELSE matched_id

\* re.sub(pattern, replace_id, txt) from index i: the leftmost match, its
\* replacement, and on from the end of the match.
RECURSIVE ReSubFrom(_, _, _)
ReSubFrom(txt, i, id_mapping_dict) ==
  LET m == FirstIndex(i, Len(txt), LAMBDA j : IdShapeAt(txt, j))
  IN IF m > Len(txt) THEN SubSeq(txt, i, Len(txt))
     ELSE SubSeq(txt, i, m - 1) \o replace_id(id_mapping_dict, IdAt(txt, m))
          \o ReSubFrom(txt, m + IdLen, id_mapping_dict)

\* ConfigItem._update_ids: [raised, v, dict_json], raised for the
\* JSONDecodeError of json.loads.
update_ids(id_mapping_dict, data_dict) ==
  LET dict_json == ReSubFrom(JsonDumps(data_dict), 1, id_mapping_dict)
      loaded == JsonLoads(dict_json)
  IN [raised |-> ~loaded.ok, v |-> loaded.v, dict_json |-> dict_json]

\* ConfigItem.put_data
put_data(self_data, id_mapping_dict) == update_ids(id_mapping_dict, self_data)

\* The keys post_data deletes.
filtered_keys(c) ==
  {c.id_tag} \cup (IF c.post_filtered_tags.is_none THEN {} ELSE c.post_filtered_tags.tags)

\* post_data without the deletion of the filtered keys.
post_data_unfiltered(c, self_data, id_mapping_dict, new_name) ==
  update_ids(id_mapping_dict,
             Obj(IF new_name.t # "none" THEN DictSet(self_data.o, c.name_tag, new_name)
                 ELSE self_data.o))

\* ConfigItem.post_data
post_data(c, self_data, id_mapping_dict, new_name) ==
  LET post_dict == DictWithout(self_data.o, filtered_keys(c))
      renamed == IF new_name.t # "none" THEN DictSet(post_dict, c.name_tag, new_name)
                 ELSE post_dict
  IN update_ids(id_mapping_dict, Obj(renamed))

(***************************************************************************)
(* Class attributes of the modelled ConfigItem subclasses, and the inputs. *)
(***************************************************************************)
kId == T(<<"i", "d">>)
kName == T(<<"n", "m">>)
kReadOnly == T(<<"r", "o">>)
kStamp == T(<<"t", "s">>)
kRef == T(<<"r", "e", "f">>)
kSub == T(<<"s", "u", "b">>)
kA == T(<<"a">>)
kB == T(<<"b">>)

\* post_filtered_tags: None, or a tuple of keys.
NoTags == [is_none |-> TRUE, tags |-> {}]
Tags(S) == [is_none |-> FALSE, tags |-> S]

\* store_file = '{item_name}.json', as the parts str.format walks.
StoreFile == <<[var |-> TRUE, text |-> Lit_item_name],
               [var |-> FALSE, text |-> T(<<".", "j", "s", "o", "n">>)]>>

\* A subclass that sets id_tag and name_tag and keeps the other defaults.
ClsPlain ==
  [id_tag |-> kId, name_tag |-> kName, post_filtered_tags |-> NoTags,
   skip_cmp_tag_set |-> {}, store_file |-> StoreFile, id_name |-> TRUE]
\* A subclass that also sets post_filtered_tags and skip_cmp_tag_set, and
\* whose iter_fields is a plain tuple.
ClsFiltered ==
  [id_tag |-> kId, name_tag |-> kName, post_filtered_tags |-> Tags({kReadOnly}),
   skip_cmp_tag_set |-> {kStamp}, store_file |-> StoreFile, id_name |-> FALSE]
ClassPool == {ClsPlain, ClsFiltered}

\* An identifier: five groups, each one repeated hex digit.
Id5(a, b, c, d, e) ==
  Rep(a, IdGroups[1]) \o <<Ch_HYPHEN>> \o Rep(b, IdGroups[2]) \o <<Ch_HYPHEN>>
  \o Rep(c, IdGroups[3]) \o <<Ch_HYPHEN>> \o Rep(d, IdGroups[4]) \o <<Ch_HYPHEN>>
  \o Rep(e, IdGroups[5])
IdOf(c) == Id5(c, c, c, c, c)
Id1 == IdOf("1")
Id2 == IdOf("2")
\* The identifier that starts in the last 8 digits of Id1 when the tail
\* of Id2 follows Id1.
IdMixed == Id5("1", "2", "2", "2", "2")
\* Identifier-shaped texts that begin inside an escape of the serialized
\* form: 'e9' of é, and the b of \b.
IdEsc == T(<<"0", "0", "e", "9">>) \o SubSeq(Id1, 5, IdLen)
IdBs == T(<<"b">>) \o SubSeq(Id1, 2, IdLen)
\* An identifier whose first digits are the escape of the letter a.
IdLetterA == T(<<"0", "0", "6", "1">>) \o SubSeq(Id1, 5, IdLen)
IdAbca == T(<<"a", "b", "c", "a">>) \o SubSeq(Id1, 5, IdLen)

sX == Str(T(<<"x">>))
sY == Str(T(<<"y">>))

\* All sequences of at most n entries of pool, in pool order, with
\* pairwise distinct keys.
Payloads(pool, n) ==
  LET picks == UNION {[1..k -> DOMAIN pool] : k \in 0..n}
      good(f) == \A i, j \in DOMAIN f :
                   i < j => f[i] < f[j] /\ pool[f[i]].k # pool[f[j]].k
  IN {Obj([i \in DOMAIN f |-> pool[f[i]]]) : f \in {g \in picks : good(g)}}

\* The entries the payloads of the rewrite are made of: identifiers as
\* values and as keys, next to hex text, overlapping, behind an escape.
RewriteEntries ==
  <<E(kId, Str(Id1)),
    E(kName, sX),
    E(kReadOnly, sX),
    E(kRef, Str(Id1 \o SubSeq(Id2, IdGroups[1] + 1, IdLen))),
    E(kRef, Str(T(<<"f">>) \o Id1)),
    E(kRef, Str(T(<<"a", "b", "c">>) \o <<233>> \o SubSeq(Id1, 5, IdLen))),
    E(kRef, Str(<<8>> \o SubSeq(Id1, 2, IdLen))),
    E(Id1, sX),
    E(Id2, sY),
    E(kSub, Obj(<<E(kId, Str(Id1))>>))>>
RewritePayloads == Payloads(RewriteEntries, MaxEntries)

\* The id mappings: at most MaxMap old ids, each to a new id.
OldIds == {Id1, IdMixed, IdEsc, IdAbca, IdBs}
NewIds == {Id2, IdLetterA}
Mappings ==
  UNION {[D -> NewIds] : D \in {S \in SUBSET OldIds : Cardinality(S) <= MaxMap}}

NewNames == {None, sY}

NoCall == [op |-> "none"]
NoFiles == [dirs |-> {}, content |-> <<>>]
NoIndex == [made |-> FALSE, data |-> <<>>, need_extended_name |-> FALSE]

(***************************************************************************)
(* The payloads of a ConfigItem: put_data and post_data.                   *)
(***************************************************************************)
InitRewrite ==
  /\ cls \in ClassPool
  /\ data \in RewritePayloads
  /\ call = NoCall
  /\ files = NoFiles /\ index = NoIndex /\ saved = {} /\ server = <<>> /\ link = "up"

\* One call at a time: a method is called on the item, and its caller takes
\* the result before the next call.
PutData ==
  /\ call = NoCall
  /\ \E m \in Mappings :
       call' = [op |-> "put_data", m |-> m, new_name |-> None, ret |-> put_data(data, m)]
  /\ UNCHANGED <<cls, data, files, index, saved, server, link>>

PostData ==
  /\ call = NoCall
  /\ \E m \in Mappings, new_name \in NewNames :
       call' = [op |-> "post_data", m |-> m, new_name |-> new_name,
                ret |-> post_data(cls, data, m, new_name)]
  /\ UNCHANGED <<cls, data, files, index, saved, server, link>>

\* The caller takes the result of the last call.
Return ==
  /\ call # NoCall
  /\ call' = NoCall
  /\ UNCHANGED <<cls, data, files, index, saved, server, link>>

NextRewrite == PutData \/ PostData \/ Return

SpecRewrite == InitRewrite /\ [][NextRewrite]_vars

Rewrote == call.op \in {"put_data", "post_data"}
Returned == Rewrote /\ ~call.ret.raised

\* The serialized payload the rewrite of the last call scanned.
Scanned ==
  IF call.op = "put_data" THEN JsonDumps(data)
  ELSE JsonDumps(Obj(IF call.new_name.t # "none"
                     THEN DictSet(DictWithout(data.o, filtered_keys(cls)),
                                  cls.name_tag, call.new_name)
                     ELSE DictWithout(data.o, filtered_keys(cls))))

\* C3: every identifier-shaped substring of the serialized payload that is
\* a key of the mapping is replaced by the mapping's value, wherever it
\* occurs in the serialized text.
C3_EveryOccurrenceReplaced ==
  Returned =>
    \A i \in 1..Len(Scanned) :
      (IdShapeAt(Scanned, i) /\ IdAt(Scanned, i) \in DOMAIN call.m)
        => /\ IdShapeAt(call.ret.dict_json, i)
           /\ IdAt(call.ret.dict_json, i) = call.m[IdAt(Scanned, i)]

\* Whether a key of the mapping occurs in the serialized form of v.
Mentions(v, m) ==
  \E i \in 1..Len(JsonDumps(v)) :
    IdShapeAt(JsonDumps(v), i) /\ IdAt(JsonDumps(v), i) \in DOMAIN m

\* C4: the rewrite changes nothing except occurrences of mapped
\* identifiers: identifiers that are no key of the mapping stay as they
\* are, entries that mention no mapped identifier are in the result
\* unchanged, no entry is lost or merged, and the empty mapping returns
\* a payload equal to the original.
C4_OnlyMappedIdsChange ==
  (call.op = "put_data" /\ Returned) =>
    /\ \A i \in 1..Len(Scanned) :
         (IdShapeAt(Scanned, i) /\ IdAt(Scanned, i) \notin DOMAIN call.m)
           => /\ IdShapeAt(call.ret.dict_json, i)
              /\ IdAt(call.ret.dict_json, i) = IdAt(Scanned, i)
    /\ Len(call.ret.v.o) = Len(data.o)
    /\ \A i \in DOMAIN data.o :
         (~Mentions(Str(data.o[i].k), call.m) /\ ~Mentions(data.o[i].v, call.m))
           => /\ HasKey(call.ret.v.o, data.o[i].k)
              /\ PyEq(ValueOf(call.ret.v.o, data.o[i].k), data.o[i].v)
    /\ (DOMAIN call.m = {} => PyEq(call.ret.v, data))

\* No value of the mapping is one of its keys.
NoChains(m) == \A k \in DOMAIN m : m[k] \notin DOMAIN m

\* C5: with no remapping chains the rewrite is idempotent: rewriting the
\* result again with the same mapping returns it unchanged.
C5_RewriteIdempotent ==
  (Returned /\ NoChains(call.m)) =>
    /\ ~update_ids(call.m, call.ret.v).raised
    /\ PyEq(update_ids(call.m, call.ret.v).v, call.ret.v)

\* C6: the creation payload holds neither the identity key nor a key of
\* post_filtered_tags at the top level, and the update payload holds the
\* identity key at the top level whenever data holds it.
C6_PayloadKeys ==
  /\ (call.op = "post_data" /\ Returned) =>
       /\ ~HasKey(call.ret.v.o, cls.id_tag)
       /\ \A k \in cls.post_filtered_tags.tags : ~HasKey(call.ret.v.o, k)
  /\ (call.op = "put_data" /\ Returned /\ HasKey(data.o, cls.id_tag)) =>
       HasKey(call.ret.v.o, cls.id_tag)

\* A creation payload was built, with a new name and a mapping that
\* applies, from data that holds the identity key and a filtered key.
C6_Witness ==
  /\ call.op = "post_data" /\ Returned
  /\ call.new_name.t # "none"
  /\ HasKey(data.o, cls.id_tag) /\ HasKey(data.o, kReadOnly)
  /\ kReadOnly \in cls.post_filtered_tags.tags
  /\ \E k \in DOMAIN call.m : Mentions(data, [x \in {k} |-> call.m[k]])

(***************************************************************************)
(* ConfigItem.is_equal.                                                    *)
(***************************************************************************)
\* sorted(txt): the characters of txt in ascending order.
Sorted(txt) ==
  LET cs == {txt[i] : i \in DOMAIN txt}
      upto == [c \in cs |-> Cardinality({j \in DOMAIN txt : txt[j] <= c})]
  IN [i \in DOMAIN txt |->
        CHOOSE c \in cs : upto[c] >= i /\ \A d \in cs : d < c => upto[d] < i]

\* The keys is_equal leaves out of the comparison.
skip_keys(c) == c.skip_cmp_tag_set \cup {c.id_tag}

\* A comparison of the serialized texts as they are.
is_equal_unsorted(c, self_data, other) ==
  JsonDumps(Obj(DictWithout(self_data.o, skip_keys(c))))
    = JsonDumps(Obj(DictWithout(other.o, skip_keys(c))))

\* ConfigItem.is_equal
is_equal(c, self_data, other) ==
  LET local_cmp_dict == Obj(DictWithout(self_data.o, skip_keys(c)))
      other_cmp_dict == Obj(DictWithout(other.o, skip_keys(c)))
  IN Sorted(JsonDumps(local_cmp_dict)) = Sorted(JsonDumps(other_cmp_dict))

\* All sequences of at most n entries of pool, in any order, with pairwise
\* distinct keys.
PayloadsAnyOrder(pool, n) ==
  LET picks == UNION {[1..k -> DOMAIN pool] : k \in 0..n}
      good(f) == \A i, j \in DOMAIN f : i # j => pool[f[i]].k # pool[f[j]].k
  IN {Obj([i \in DOMAIN f |-> pool[f[i]]]) : f \in {g \in picks : good(g)}}

\* The entries of the compared payloads: ignored keys, values with the
\* same characters in another order, nested mappings in both key orders.
EqEntries ==
  <<E(kId, sX),
    E(kId, sY),
    E(kStamp, sX),
    E(kA, Str(T(<<"x", "y">>))),
    E(kA, Str(T(<<"y", "x">>))),
    E(kA, Obj(<<E(kA, sX), E(kB, sY)>>)),
    E(kA, Obj(<<E(kB, sY), E(kA, sX)>>)),
    E(kB, sX)>>
EqPayloads == PayloadsAnyOrder(EqEntries, MaxEntries)

InitEq ==
  /\ cls \in ClassPool
  /\ data \in EqPayloads
  /\ call = NoCall
  /\ files = NoFiles /\ index = NoIndex /\ saved = {} /\ server = <<>> /\ link = "up"

IsEqual ==
  /\ call = NoCall
  /\ \E other \in EqPayloads :
       call' = [op |-> "is_equal", other |-> other, ret |-> is_equal(cls, data, other)]
  /\ UNCHANGED <<cls, data, files, index, saved, server, link>>

NextEq == IsEqual \/ Return

SpecEq == InitEq /\ [][NextEq]_vars

\* The two compared payloads without the ignored keys.
LocalKept == Obj(DictWithout(data.o, cls.skip_cmp_tag_set \cup {cls.id_tag}))
OtherKept == Obj(DictWithout(call.other.o, cls.skip_cmp_tag_set \cup {cls.id_tag}))

\* C1: is_equal returns true only when the two payloads, without the
\* ignored keys, have the same keys with the same (nested) values.
C1_EqualOnlyIfSame ==
  (call.op = "is_equal" /\ call.ret) => PyEq(LocalKept, OtherKept)

\* C2: payloads that hold the same keys with the same values once the
\* ignored keys are removed compare equal, whatever the order of their
\* keys, at the top level and in nested mappings.
C2_OrderInsensitive ==
  (call.op = "is_equal" /\ PyEq(LocalKept, OtherKept)) => call.ret

\* Equal payloads whose keys come in another order at the top level and in
\* a nested mapping compared equal.
C2_Witness ==
  /\ call.op = "is_equal" /\ call.ret
  /\ PyEq(LocalKept, OtherKept)
  /\ Len(LocalKept.o) = 2
  /\ LocalKept.o[1].k = OtherKept.o[2].k
  /\ \E i, j \in DOMAIN LocalKept.o :
       /\ LocalKept.o[i].v.t = "obj"
       /\ OtherKept.o[j].k = LocalKept.o[i].k
       /\ OtherKept.o[j].v # LocalKept.o[i].v

(***************************************************************************)
(* filename_safe and ConfigItem.get_filename (names are Latin-1 text).     *)
(***************************************************************************)
\* \w: a letter, a digit or a numeric character, or the underscore.
IsWordChar(c) ==
  \/ IsDigit(c) \/ IsUpper(c) \/ IsLowerAscii(c) \/ c = Ch_UNDERSCORE
  \/ c \in {170, 178, 179, 181, 185, 186, 188, 189, 190}
  \/ (c >= 192 /\ c <= 255 /\ c \notin {215, 247})
\* \s: Unicode whitespace.
IsSpaceChar(c) == (c >= 9 /\ c <= 13) \/ (c >= 28 /\ c <= 32) \/ c \in {133, 160}
\* str.lower(), one character.
LowerChar(c) ==
  IF IsUpper(c) \/ (c >= 192 /\ c <= 222 /\ c # 215) THEN c + 32 ELSE c

\* filename_safe: re.sub(r'[^\w\s-]', '_', name), lowered if lower.
filename_safe(name, lower) ==
  LET cleaned == [i \in DOMAIN name |->
                    IF IsWordChar(name[i]) \/ IsSpaceChar(name[i]) \/ name[i] = Ch_HYPHEN
                    THEN name[i] ELSE Ch_UNDERSCORE]
  IN IF lower THEN [i \in DOMAIN cleaned |-> LowerChar(cleaned[i])] ELSE cleaned

\* A str.format template as written: its fields in braces.
RECURSIVE TemplateText(_, _)
TemplateText(parts, i) ==
  IF i > Len(parts) THEN <<>>
  ELSE (IF parts[i].var THEN <<Ch_LBRACE>> \o parts[i].text \o <<Ch_RBRACE>> ELSE parts[i].text)
       \o TemplateText(parts, i + 1)

\* store_file.format(item_name=item_name, item_id=item_id)
RECURSIVE Format(_, _, _, _)
Format(parts, i, item_name, item_id) ==
  IF i > Len(parts) THEN <<>>
  ELSE (IF ~parts[i].var THEN parts[i].text
        ELSE IF parts[i].text = Lit_item_id THEN item_id
        ELSE item_name)
       \o Format(parts, i + 1, item_name, item_id)

\* get_filename with ext_name taken as False.
get_filename_plain(c, ext_name, item_name, item_id) ==
  IF item_name.t = "none" \/ item_id.t = "none" THEN TemplateText(c.store_file, 1)
  ELSE Format(c.store_file, 1, filename_safe(item_name.s, FALSE), item_id.s)

\* ConfigItem.get_filename; item_name and item_id are None or a str.
get_filename(c, ext_name, item_name, item_id) ==
  IF item_name.t = "none" \/ item_id.t = "none" THEN TemplateText(c.store_file, 1)
  ELSE LET safe_name == IF ~ext_name THEN filename_safe(item_name.s, FALSE)
                        ELSE filename_safe(item_name.s, FALSE) \o <<Ch_UNDERSCORE>> \o item_id.s
       IN Format(c.store_file, 1, safe_name, item_id.s)

(***************************************************************************)
(* ConfigItem.load and ConfigItem.save.  The filesystem under root_dir:    *)
(* the node directories that exist, and the text of each file, by          *)
(* <<node_dir, filename>> (store_path is fixed for the class).             *)
(***************************************************************************)
FilePath(c, node_dir, ext_name, item_name, item_id) ==
  <<node_dir, get_filename(c, ext_name, item_name, item_id)>>

\* ApiItem.is_empty
is_empty(self_data) == self_data.t = "none" \/ Len(self_data.o) = 0

\* ConfigItem.load: None for a missing file, ModelException for a file that
\* is not JSON, else the item.
load(c, fs, node_dir, ext_name, item_name, item_id) ==
  LET file_path == FilePath(c, node_dir, ext_name, item_name, item_id)
  IN IF file_path \notin DOMAIN fs.content THEN [kind |-> "none", data |-> None]
     ELSE LET parsed == JsonLoads(fs.content[file_path])
          IN IF ~parsed.ok THEN [kind |-> "raise", data |-> None]
             ELSE [kind |-> "item", data |-> parsed.v]

\* f[x] = y for a function f, whether or not it is defined at x.
Put(f, x, y) == [z \in DOMAIN f \cup {x} |-> IF z = x THEN y ELSE f[z]]

\* save that writes the file under the name without the identifier.
save_plain_name(c, fs, self_data, node_dir, ext_name, item_name, item_id) ==
  IF is_empty(self_data) THEN [ret |-> FALSE, fs |-> fs]
  ELSE [ret |-> TRUE,
        fs |-> [dirs |-> fs.dirs \cup {node_dir},
                content |-> Put(fs.content, FilePath(c, node_dir, FALSE, item_name, item_id),
                                JsonDumpsIndent(self_data))]]

\* ConfigItem.save: [ret, fs], the value returned and the filesystem after.
save(c, fs, self_data, node_dir, ext_name, item_name, item_id) ==
  IF is_empty(self_data) THEN [ret |-> FALSE, fs |-> fs]
  ELSE [ret |-> TRUE,
        fs |-> [dirs |-> fs.dirs \cup {node_dir},
                content |-> Put(fs.content, FilePath(c, node_dir, ext_name, item_name, item_id),
                                JsonDumpsIndent(self_data))]]

(***************************************************************************)
(* Backup of one item: save and load.                                      *)
(***************************************************************************)
\* Entries of the saved payloads: text that json escapes (quote,
\* backslash, e-acute, line feed, tab), nested and empty mappings.
StoreEntries ==
  <<E(kId, Str(Id1)),
    E(kName, Str(<<Ch_QUOTE, Ch_BACKSLASH, 233, 10, 9, Ord("x")>>)),
    E(kSub, Obj(<<>>)),
    E(kSub, Obj(<<E(kA, sX), E(kB, Obj(<<E(kA, sY)>>))>>))>>
StorePayloads == Payloads(StoreEntries, MaxEntries) \cup {None}

NodeDirs == {T(<<"n", "1">>), T(<<"n", "2">>)}
ItemNames == {None, Str(T(<<"a", ".", "b">>)), Str(T(<<"a", "_", "b">>))}
ItemIds == {None, Str(Id1)}

\* A filesystem that already holds a file that is not JSON.
BrokenFile ==
  [dirs |-> {T(<<"n", "1">>)},
   content |-> [q \in {<<T(<<"n", "1">>), T(<<"a", "_", "b", ".", "j", "s", "o", "n">>)>>}
                  |-> T(<<"x", "{">>)]]

InitStore ==
  /\ cls = ClsPlain
  /\ data \in StorePayloads
  /\ call = NoCall
  /\ files \in {NoFiles, BrokenFile}
  /\ index = NoIndex /\ saved = {} /\ server = <<>> /\ link = "up"

Save ==
  /\ call = NoCall
  /\ \E node_dir \in NodeDirs, ext_name \in BOOLEAN, item_name \in ItemNames,
        item_id \in ItemIds :
       LET r == save(cls, files, data, node_dir, ext_name, item_name, item_id)
       IN /\ Cardinality(DOMAIN r.fs.content) <= MaxFiles
          /\ files' = r.fs
          /\ call' = [op |-> "save", node_dir |-> node_dir, ext_name |-> ext_name,
                      item_name |-> item_name, item_id |-> item_id, ret |-> r.ret,
                      before |-> files]
  /\ UNCHANGED <<cls, data, index, saved, server, link>>

Load ==
  /\ call = NoCall
  /\ \E node_dir \in NodeDirs, ext_name \in BOOLEAN, item_name \in ItemNames,
        item_id \in ItemIds :
       call' = [op |-> "load", node_dir |-> node_dir, ext_name |-> ext_name,
                item_name |-> item_name, item_id |-> item_id,
                ret |-> load(cls, files, node_dir, ext_name, item_name, item_id)]
  /\ UNCHANGED <<cls, data, files, index, saved, server, link>>

NextStore == Save \/ Load \/ Return

SpecStore == InitStore /\ [][NextStore]_vars

\* What a load with the arguments of the last call returns now.
LoadAgain ==
  load(cls, files, call.node_dir, call.ext_name, call.item_name, call.item_id)

\* C8: save of empty data returns False and leaves the filesystem as it
\* was; save of other data returns True, and a load with the same
\* node_dir, ext_name, item_name and item_id then returns an item whose
\* data equals the saved data.
C8_SaveLoadRoundTrip ==
  call.op = "save" =>
    IF data.t = "none" \/ Len(data.o) = 0
    THEN call.ret = FALSE /\ files = call.before
    ELSE /\ call.ret = TRUE
         /\ LoadAgain.kind = "item"
         /\ PyEq(LoadAgain.data, data)

\* A payload with escaped text was saved under an extended, sanitized name
\* next to another file.
C8_Witness ==
  /\ call.op = "save" /\ call.ret = TRUE
  /\ HasKey(data.o, kName) /\ HasKey(data.o, kSub)
  /\ call.ext_name
  /\ call.item_name = Str(T(<<"a", ".", "b">>)) /\ call.item_id = Str(Id1)
  /\ Cardinality(DOMAIN files.content) = 2

(***************************************************************************)
(* IndexConfigItem: the index of a collection, and the backup of its       *)
(* members.                                                                *)
(***************************************************************************)
\* IndexConfigItem.__init__ that compares the sanitized names as they are
\* cased.
IndexConfigItem_init_cased(c, raw) ==
  LET rows == raw.rows
      names == [i \in DOMAIN rows |-> ValueOf(rows[i].o, c.name_tag).s]
  IN [made |-> TRUE, data |-> rows,
      need_extended_name |->
        IF c.id_name
        THEN Cardinality({filename_safe(names[i], FALSE) : i \in DOMAIN names}) # Len(rows)
        ELSE FALSE]

\* IndexConfigItem.__init__; raw is the payload, a list of rows or a dict
\* that holds the list under 'data', and rows is that list either way.
IndexConfigItem_init(c, raw) ==
  LET rows == raw.rows
      names == [i \in DOMAIN rows |-> ValueOf(rows[i].o, c.name_tag).s]
  IN [made |-> TRUE, data |-> rows,
      need_extended_name |->
        IF c.id_name
        THEN Cardinality({filename_safe(names[i], TRUE) : i \in DOMAIN names}) # Len(rows)
        ELSE FALSE]

\* One row of an index.
Row(id, name) == Obj(<<E(kId, Str(id)), E(kName, Str(name))>>)

\* The rows the indexes are made of, each with its own identifier: names
\* that differ by a hyphen, a dot, a tab, or by case only, and a name that
\* ends like an extended name.
IndexEntries ==
  <<Row(IdOf("1"), T(<<"F", "o", "o", "-", "1">>)),
    Row(IdOf("2"), T(<<"f", "o", "o", "_", "1">>)),
    Row(IdOf("3"), T(<<"f", "o", "o", ".", "1">>)),
    Row(IdOf("4"), T(<<"f", "o", "o">>) \o <<9>> \o T(<<"1">>)),
    Row(IdOf("5"), T(<<"F", "o", "o", "_", "1">>)),
    Row(IdOf("6"), T(<<"A">>)),
    Row(IdOf("7"), T(<<"B">>)),
    Row(IdOf("8"), T(<<"a">>)),
    Row(IdOf("9"), T(<<"a", "_">>) \o IdOf("6"))>>

\* All lists of at most n rows of pool, in pool order.
Rows(pool, n) ==
  LET picks == UNION {[1..k -> DOMAIN pool] : k \in 0..n}
      good(f) == \A i, j \in DOMAIN f : i < j => f[i] < f[j]
  IN {[i \in DOMAIN f |-> pool[f[i]]] : f \in {g \in picks : good(g)}}
IndexRows == Rows(IndexEntries, MaxIndex)

\* The node directory of the backup.
IndexNodeDir == T(<<"n", "1">>)

RowId(i) == ValueOf(index.data[i].o, cls.id_tag)
RowName(i) == ValueOf(index.data[i].o, cls.name_tag)

InitIndex ==
  /\ cls \in ClassPool
  /\ data = None
  /\ call = NoCall
  /\ files = NoFiles /\ index = NoIndex /\ saved = {} /\ server = <<>> /\ link = "up"

\* The index is built from the payload of the controller.
NewIndex ==
  /\ call = NoCall /\ ~index.made
  /\ \E is_dict \in BOOLEAN, rows \in IndexRows :
       /\ index' = IndexConfigItem_init(cls, [is_dict |-> is_dict, rows |-> rows])
       /\ call' = [op |-> "index", is_dict |-> is_dict]
  /\ UNCHANGED <<cls, data, files, saved, server, link>>

\* A member that is not yet saved is saved, under the name and identifier
\* of its row, with ext_name as the index tells.
SaveMember ==
  /\ call = NoCall /\ index.made
  /\ \E i \in DOMAIN index.data \ saved :
       LET r == save(cls, files, index.data[i], IndexNodeDir, index.need_extended_name,
                     RowName(i), RowId(i))
       IN /\ files' = r.fs
          /\ saved' = saved \cup {i}
          /\ call' = [op |-> "save_member", i |-> i, ret |-> r.ret]
  /\ UNCHANGED <<cls, data, index, server, link>>

\* A member is loaded, with the name and identifier of its row.
LoadMember ==
  /\ call = NoCall /\ index.made
  /\ \E i \in DOMAIN index.data :
       call' = [op |-> "load_member", i |-> i,
                ret |-> load(cls, files, IndexNodeDir, index.need_extended_name,
                             RowName(i), RowId(i))]
  /\ UNCHANGED <<cls, data, files, index, saved, server, link>>

NextIndex == NewIndex \/ SaveMember \/ LoadMember \/ Return

SpecIndex == InitIndex /\ [][NextIndex]_vars

\* The names of the rows of the index.
IndexNames == [i \in DOMAIN index.data |-> RowName(i).s]

\* The sanitization as the claim words it: a character that is no ASCII
\* letter, digit, underscore, space or hyphen becomes an underscore; then
\* lower case.
SanitizedAsClaimed(name) ==
  [i \in DOMAIN name |->
     IF IsDigit(name[i]) \/ IsLowerAscii(name[i]) \/ name[i] \in {Ch_UNDERSCORE, Ch_SPACE, Ch_HYPHEN}
     THEN name[i]
     ELSE IF IsUpper(name[i]) THEN name[i] + 32
     ELSE Ch_UNDERSCORE]

MemberFile(i) ==
  FilePath(cls, IndexNodeDir, index.need_extended_name, RowName(i), RowId(i))

\* C10: for an index with IdName iter_fields whose rows have pairwise
\* distinct identifiers, once every member is saved with ext_name equal to
\* need_extended_name, the members' filenames are pairwise distinct, each
\* member has its own file, and a load of a member returns that member's
\* data.
C10_NoFileOverwritten ==
  (/\ index.made /\ cls.id_name
   /\ saved = DOMAIN index.data
   /\ \A i, j \in DOMAIN index.data : i # j => RowId(i) # RowId(j)) =>
    /\ \A i, j \in DOMAIN index.data : i # j => MemberFile(i) # MemberFile(j)
    /\ Cardinality(DOMAIN files.content) = Len(index.data)
    /\ call.op = "load_member" =>
         /\ call.ret.kind = "item"
         /\ PyEq(call.ret.data, index.data[call.i])

\* Every member of an index of three rows whose names collide was saved,
\* and one was loaded back.
C10_Witness ==
  /\ index.made /\ cls.id_name /\ index.need_extended_name
  /\ Len(index.data) = MaxIndex /\ saved = DOMAIN index.data
  /\ \E i, j \in DOMAIN index.data :
       i # j /\ filename_safe(RowName(i).s, FALSE) = filename_safe(RowName(j).s, FALSE)
  /\ call.op = "load_member" /\ call.ret.kind = "item"

(***************************************************************************)
(* ApiItem.get and ApiItem.get_raise.  The controller holds items by path; *)
(* the link to it is up or down.                                           *)
(***************************************************************************)
PathEntries == {T(<<"1">>), T(<<"2">>), T(<<"3">>)}
FetchPayloads == {Obj(<<E(kId, Str(Id1))>>), Obj(<<>>)}
Controllers == UNION {[D -> FetchPayloads] : D \in SUBSET PathEntries}

\* api.get(cls.api_path.get, path): the payload, or RestAPIException when
\* the request fails (the link is down) or the controller has no such item.
api_get(srv, lnk, path) ==
  IF lnk = "down" THEN [raised |-> TRUE, error |-> "transport", v |-> None]
  ELSE IF path \notin DOMAIN srv THEN [raised |-> TRUE, error |-> "not_found", v |-> None]
  ELSE [raised |-> FALSE, error |-> "none", v |-> srv[path]]

\* ApiItem.get_raise: the item, or the exception of api.get.
ApiItem_get_raise(srv, lnk, path) ==
  LET r == api_get(srv, lnk, path)
  IN [raised |-> r.raised, error |-> r.error, is_none |-> FALSE, data |-> r.v]

\* ApiItem.get without the except clause.
ApiItem_get_unguarded(srv, lnk, path) == ApiItem_get_raise(srv, lnk, path)

\* ApiItem.get: None in place of a RestAPIException.
ApiItem_get(srv, lnk, path) ==
  LET r == ApiItem_get_raise(srv, lnk, path)
  IN IF r.raised THEN [raised |-> FALSE, error |-> "none", is_none |-> TRUE, data |-> None]
     ELSE r

InitFetch ==
  /\ cls = ClsPlain
  /\ data = None
  /\ call = NoCall
  /\ files = NoFiles /\ index = NoIndex /\ saved = {}
  /\ server \in Controllers
  /\ link = "up"

\* The link to the controller fails, and comes back.
LinkDown ==
  /\ call = NoCall /\ link = "up"
  /\ link' = "down"
  /\ UNCHANGED <<cls, data, call, files, index, saved, server>>

LinkUp ==
  /\ call = NoCall /\ link = "down"
  /\ link' = "up"
  /\ UNCHANGED <<cls, data, call, files, index, saved, server>>

Get ==
  /\ call = NoCall
  /\ \E path \in PathEntries :
       call' = [op |-> "get", path |-> path, api |-> api_get(server, link, path),
                ret |-> ApiItem_get(server, link, path)]
  /\ UNCHANGED <<cls, data, files, index, saved, server, link>>

GetRaise ==
  /\ call = NoCall
  /\ \E path \in PathEntries :
       call' = [op |-> "get_raise", path |-> path, api |-> api_get(server, link, path),
                ret |-> ApiItem_get_raise(server, link, path)]
  /\ UNCHANGED <<cls, data, files, index, saved, server, link>>

NextFetch == LinkDown \/ LinkUp \/ Get \/ GetRaise \/ Return

SpecFetch == InitFetch /\ [][NextFetch]_vars

Fetched == call.op \in {"get", "get_raise"}

\* C9 as claimed: when api.get raises the transport error, get and
\* get_raise alike raise it to the caller, and None is returned only when
\* the controller does not hold the item.
C9_TransportErrorNeverSuppressed ==
  Fetched =>
    /\ (call.api.raised /\ call.api.error = "transport")
         => (call.ret.raised /\ call.ret.error = "transport")
    /\ call.ret.is_none => call.path \notin DOMAIN server

\* C9, amended: get_raise raises to the caller the RestAPIException that
\* api.get raises, as it is, and returns an item otherwise; get never raises
\* it and returns None exactly when api.get raises, whether the request
\* failed or the controller does not hold the item.
C9_GetRaisePropagates ==
  /\ call.op = "get_raise" =>
       /\ call.ret.raised = call.api.raised
       /\ call.ret.error = call.api.error
       /\ ~call.ret.is_none
       /\ ~call.ret.raised => call.ret.data = server[call.path]
  /\ call.op = "get" =>
       /\ ~call.ret.raised
       /\ call.ret.is_none = (link = "down" \/ call.path \notin DOMAIN server)
       /\ ~call.ret.is_none => call.ret.data = server[call.path]

\* get returned None for an item the controller holds, the link being
\* down.
C9_Witness ==
  /\ call.op = "get" /\ link = "down"
  /\ call.path \in DOMAIN server
  /\ call.ret.is_none /\ ~call.ret.raised

====
